---------------------------- MODULE Spec2Model ----------------------------
(***************************************************************************)
(* The resource tamper / steganography checker of                          *)
(* src/python/steganography.py: analyze_file and the helpers it calls,     *)
(* and the report test of main.                                            *)
(*                                                                         *)
(* A file is its size, its path suffix and the bytes that can take part in *)
(* a signature match: `data` maps a few offsets to byte strings (real byte *)
(* values); every other position holds a byte that belongs to no           *)
(* signature, written -1.  Buffers read from the file are intervals of     *)
(* file positions, so startswith and find are computed on the bytes.       *)
(* Entropy is kept in thousandths of a bit.                                *)
(***************************************************************************)
EXTENDS Integers, Sequences, FiniteSets, TLC

VARIABLES file, pc, entry, stages, listed, ent_input, main, handles, perms

vars == <<file, pc, entry, stages, listed, ent_input, main, handles, perms>>

-----------------------------------------------------------------------------
(* Constants of the program *)

BPP_THRESHOLD == 5

ENTROPY_SUSPICIOUS == 7500

ENTROPY_UNMISTAKABLE == 7900

HEADER_READ == 4096

TAIL_SCAN == 1024 * 1024

SAMPLE_CHUNK == 131072

PNG_SIG == <<137, 80, 78, 71, 13, 10, 26, 10>>

JPEG_SIG == <<255, 216, 255>>

GIF_SIG == <<71, 73, 70, 56>>

RIFF_SIG == <<82, 73, 70, 70>>

ZIP_SIG == <<80, 75, 3, 4>>

DEX_SIG == <<100, 101, 120, 10, 48, 51, 53>>

ELF_SIG == <<127, 69, 76, 70>>

MZ_SIG == <<77, 90>>

MAGICS ==
  << [sig |-> PNG_SIG,  name |-> "PNG"],
     [sig |-> JPEG_SIG, name |-> "JPEG"],
     [sig |-> GIF_SIG,  name |-> "GIF"],
     [sig |-> RIFF_SIG, name |-> "RIFF/WEBP"],
     [sig |-> ZIP_SIG,  name |-> "ZIP/APK/JAR"],
     [sig |-> DEX_SIG,  name |-> "DEX"],
     [sig |-> ELF_SIG,  name |-> "ELF"],
     [sig |-> MZ_SIG,   name |-> "PE/MZ"] >>

(* Python's None, and a present value *)
None == <<>>

Some(x) == <<x>>

-----------------------------------------------------------------------------
(* Bounds and input sets *)

\* number of candidate signature positions near the end of the large file
MaxTailOcc == 1

\* "PK\x03\x04" followed by the entry name "META-INF/": a signed archive's marker
ZIP_META == ZIP_SIG \o <<77, 69, 84, 65, 45, 73, 78, 70, 47>>

\* byte strings a file may start with: nothing, each table signature, a truncated
\* PNG signature, a truncated JPEG signature, and one byte followed by ELF
LeadStrings ==
  {<<>>} \cup {MAGICS[i].sig : i \in 1..Len(MAGICS)}
         \cup {SubSeq(PNG_SIG, 1, 4), SubSeq(JPEG_SIG, 1, 2), <<65>> \o ELF_SIG}

\* byte strings placed at position 16
EmbStrings == {<<>>, PNG_SIG, ZIP_SIG, ZIP_META, DEX_SIG, ELF_SIG, MZ_SIG}

\* byte strings placed near the end of the large file
TailStrings == {<<>>, ZIP_META, ELF_SIG}

Sizes == {0, 80, HEADER_READ, HEADER_READ + 1, 2 * TAIL_SCAN}

Offsets(size) ==
  IF size = 0 THEN {}
  ELSE {0, 16} \cup (IF size > TAIL_SCAN + HEADER_READ
                     THEN {size - 64 * k : k \in 1..MaxTailOcc} ELSE {})

Suffixes == {".png", ".PNG", ".jpeg", ".gif", ".webp", ".so", ".xml", ".dat"}

Contents(size) ==
  {d \in [Offsets(size) -> LeadStrings \cup EmbStrings] :
     \A o \in Offsets(size) : d[o] \in (IF o = 0 THEN LeadStrings
                                         ELSE IF o = 16 THEN EmbStrings
                                         ELSE TailStrings)}

FilesOfSize(s) ==
  {[exists |-> TRUE, size |-> s, path |-> [dir |-> <<"res">>, stem |-> "a", suffix |-> x], data |-> d] :
       x \in Suffixes, d \in Contents(s)}

\* a path that names no file any more (size taken as 0 by analyze_file)
MissingFiles ==
  {[exists |-> FALSE, size |-> 0, path |-> [dir |-> <<"res">>, stem |-> "a", suffix |-> x], data |-> d] :
       x \in Suffixes, d \in Contents(0)}

Files == UNION {FilesOfSize(s) : s \in Sizes} \cup MissingFiles

\* files of more than HEADER_READ bytes around the size where the entropy
\* stage starts to sample: without signatures or with a PNG header, and with or
\* without a signature near the end
LargeSizes == {5 * 1024 * 1024, 5 * 1024 * 1024 + 1, 7 * 1024 * 1024}

LargeFiles ==
  {f \in UNION {FilesOfSize(s) : s \in LargeSizes} :
     /\ f.data[0] \in {<<>>, PNG_SIG}
     /\ f.data[16] = <<>>
     /\ f.path.suffix \in {".png", ".dat"}}

\* files of at most MaxBuf bytes, every byte given
MaxBuf == 4

SampleBytes == {0, 65, 255}

KnownFiles ==
  {[exists |-> TRUE, size |-> Len(d), path |-> [dir |-> <<"res">>, stem |-> "a", suffix |-> x],
    data |-> [o \in {0} |-> d]] :
       d \in UNION {[1..k -> SampleBytes] : k \in 1..MaxBuf}, x \in Suffixes}

\* entropy values (thousandths of a bit) a content of `size` bytes can have:
\* entropy is at most log2(size), and 2^7.5 < 182, 2^7.9 < 239
EntropyValues(size) ==
  {e \in {3000, ENTROPY_SUSPICIOUS, ENTROPY_UNMISTAKABLE} :
     /\ (e >= ENTROPY_SUSPICIOUS => size >= 182)
     /\ (e >= ENTROPY_UNMISTAKABLE => size >= 239)}

\* a file without any signature byte can have any entropy: the ends of the
\* range and the values next to the two thresholds
EntropyBounds ==
  {0, ENTROPY_SUSPICIOUS - 1, ENTROPY_UNMISTAKABLE - 1, 8000}

\* no byte of f is given
PlainContent(f) == f.size >= 256 /\ \A o \in DOMAIN f.data : f.data[o] = <<>>

\* every byte of f is given
KnownContent(f) ==
  f.size > 0 /\ DOMAIN f.data = {0} /\ Len(f.data[0]) = f.size

\* what the image library can report: only a file that starts with an image
\* signature, or with a format outside the table, decodes
Decodable(f) ==
  /\ f.size > 0
  /\ f.data[0] \in {<<>>, PNG_SIG, JPEG_SIG, GIF_SIG, RIFF_SIG}

DimensionValues == {<<4, 4>>, <<1000, 1000>>}

-----------------------------------------------------------------------------
(* Bytes and buffers *)

Min(S) == CHOOSE x \in S : \A y \in S : x <= y

Max(S) == CHOOSE x \in S : \A y \in S : x >= y

\* the byte of f at position p (-1: a byte outside every signature); the byte
\* strings of `data` start at multiples of 16 and are shorter than 16
ByteAt(f, p) ==
  LET o == p - (p % 16)
  IN  IF o \in DOMAIN f.data /\ p - o < Len(f.data[o])
      THEN f.data[o][p - o + 1] ELSE -1

\* positions from which n bytes of `data` follow each other: the only places
\* where a signature of n bytes can stand
Positions(f, n) == UNION {o..(o + Len(f.data[o]) - n) : o \in DOMAIN f.data}

\* f.seek(start); f.read(n): the interval of positions read
read(f, start, n) ==
  LET from == Min({start, f.size})
  IN  [start |-> from, len |-> Min({n, f.size - from})]

\* buf.startswith(sig)
startswith(f, buf, sig) ==
  /\ Len(sig) <= buf.len
  /\ \A i \in 1..Len(sig) : ByteAt(f, buf.start + i - 1) = sig[i]

\* buf.find(sig): index in buf of the first occurrence, -1 when there is none
find(f, buf, sig) ==
  LET hits == {p \in Positions(f, Len(sig)) :
                 /\ p >= buf.start
                 /\ p + Len(sig) <= buf.start + buf.len
                 /\ \A i \in 1..Len(sig) : ByteAt(f, p + i - 1) = sig[i]}
  IN  IF hits = {} THEN -1 ELSE Min(hits) - buf.start

read_initial(f) == read(f, 0, HEADER_READ)

detect_magic(f, header_bytes) ==
  LET m == {i \in 1..Len(MAGICS) : startswith(f, header_bytes, MAGICS[i].sig)}
  IN  IF m = {} THEN None ELSE Some(MAGICS[Min(m)].name)

\* math.log2 of n in thousandths, for the small n of the buffers given in full
Log2(n) ==
  CASE n = 1 -> 0    [] n = 2 -> 1000 [] n = 3 -> 1585 [] n = 4 -> 2000
    [] n = 5 -> 2322 [] n = 6 -> 2585 [] n = 7 -> 2807 [] n = 8 -> 3000

\* lines 38-51: the sum over the byte values that occur of -p * log2(p), with
\* p = count / len(data), in thousandths of a bit
RECURSIVE EntropySum(_, _, _)
EntropySum(counts, values, data_len) ==
  IF values = {} THEN 0
  ELSE LET b == CHOOSE b \in values : TRUE
           count == counts[b]
       IN  (IF count > 0
            THEN (count * (Log2(data_len) - Log2(count))) \div data_len
            ELSE 0)
           + EntropySum(counts, values \ {b}, data_len)

\* entropy += p * log2(p)
shannon_entropy_bytes_Plus(data) ==
  IF data = <<>> THEN 0
  ELSE LET values == {data[i] : i \in 1..Len(data)}
           counts == [b \in values |-> Cardinality({i \in 1..Len(data) : data[i] = b})]
       IN  0 - EntropySum(counts, values, Len(data))

shannon_entropy_bytes(data) ==
  IF data = <<>> THEN 0
  ELSE LET values == {data[i] : i \in 1..Len(data)}
           counts == [b \in values |-> Cardinality({i \in 1..Len(data) : data[i] = b})]
       IN  EntropySum(counts, values, Len(data))

bytes_per_pixel(filesize, w, h) ==
  IF w = None \/ h = None \/ w = Some(0) \/ h = Some(0) THEN None
  ELSE Some(<<filesize, w[1] * h[1]>>)

-----------------------------------------------------------------------------
(* scan_for_embedded *)

\* the head loop's test for table entry i (the nested ifs of the source, kept);
\* tell is f.tell() after the head was read
HeadAdds(f, head, tell, primary_magic, i) ==
  LET sig == MAGICS[i].sig
      name == MAGICS[i].name
  IN  /\ startswith(f, head, sig) /\ Len(sig) > 2
      /\ ~(Some(name) = primary_magic /\ tell = Len(sig))
      /\ ~(Some(name) = primary_magic /\ 0 = 0)
      /\ Some(name) # primary_magic

RECURSIVE HeadLoop(_, _, _, _, _)
HeadLoop(f, head, tell, primary_magic, i) ==
  IF i > Len(MAGICS) THEN <<>>
  ELSE (IF HeadAdds(f, head, tell, primary_magic, i)
        THEN <<[name |-> MAGICS[i].name, offset |-> 0]>> ELSE <<>>)
       \o HeadLoop(f, head, tell, primary_magic, i + 1)

\* the tail loop without its test that the offset is not 0
TailFinding_KeepsZero(f, size, tail, i) ==
  LET pos == find(f, tail, MAGICS[i].sig)
      offset == size - tail.len + pos
  IN  IF pos # -1
      THEN <<[name |-> MAGICS[i].name, offset |-> offset]>> ELSE <<>>

\* the offset within the tail buffer is reported
TailFinding_BufferOffset(f, size, tail, i) ==
  LET pos == find(f, tail, MAGICS[i].sig)
      offset == pos
  IN  IF pos # -1 /\ offset # 0
      THEN <<[name |-> MAGICS[i].name, offset |-> offset]>> ELSE <<>>

\* the first occurrence that is not at offset 0 is reported
TailFinding_SkipsZero(f, size, tail, i) ==
  LET sig == MAGICS[i].sig
      hits == {p \in Positions(f, Len(sig)) :
                 /\ p >= Max({tail.start, 1})
                 /\ p + Len(sig) <= tail.start + tail.len
                 /\ startswith(f, [start |-> p, len |-> Len(sig)], sig)}
  IN  IF hits # {}
      THEN <<[name |-> MAGICS[i].name, offset |-> Min(hits)]>> ELSE <<>>

\* the tail loop's finding for table entry i: none, or one (name, offset)
TailFinding(f, size, tail, i) ==
  LET pos == find(f, tail, MAGICS[i].sig)
      offset == size - tail.len + pos
  IN  IF pos # -1 /\ offset # 0
      THEN <<[name |-> MAGICS[i].name, offset |-> offset]>> ELSE <<>>

RECURSIVE TailLoop(_, _, _, _)
TailLoop(f, size, tail, i) ==
  IF i > Len(MAGICS) THEN <<>>
  ELSE TailFinding(f, size, tail, i) \o TailLoop(f, size, tail, i + 1)

\* the tail of every file is scanned
TailScanned_Always(size) == size > 0

\* whether the tail is scanned at all
TailScanned(size) == size > HEADER_READ

scan_for_embedded(f, primary_magic) ==
  LET size == f.size
      head == read(f, 0, HEADER_READ)
      tell == head.len
      start == Max({0, size - TAIL_SCAN})
      tail == read(f, start, size)
  IN  IF size = 0 THEN <<>>
      ELSE HeadLoop(f, head, tell, primary_magic, 1)
           \o (IF TailScanned(size) THEN TailLoop(f, size, tail, 1) ELSE <<>>)

-----------------------------------------------------------------------------
(* analyze_file, stage by stage *)

Reason(kind, name, num, ext) == [kind |-> kind, name |-> name, num |-> num, ext |-> ext]

Lower(s) == IF s = ".PNG" THEN ".png" ELSE s

NewEntry(f) ==
  [path |-> f.path,
   filesize |-> IF f.exists THEN f.size ELSE 0,
   magic |-> None,
   extension |-> Lower(f.path.suffix),
   entropy |-> None,
   w |-> None, h |-> None, bpp |-> None,
   embedded |-> <<>>,
   reasons |-> <<>>,
   score |-> 0]

\* lines 145-147
EmptyCheck(e) ==
  [e EXCEPT !.reasons = Append(@, Reason("empty file", "", 0, ""))]

\* lines 199-214: ext_map.get(extension)
ext_map(ext) ==
  CASE ext = ".png"  -> Some("PNG")
    [] ext = ".jpg"  -> Some("JPEG")
    [] ext = ".jpeg" -> Some("JPEG")
    [] ext = ".gif"  -> Some("GIF")
    [] ext = ".webp" -> Some("RIFF/WEBP")
    [] ext = ".so"   -> Some("ELF")
    [] OTHER         -> None

\* the magic taken from the extension when the extension has an expected magic
MagicStage_ByExtension(e, f) ==
  LET m == detect_magic(f, read_initial(f))
      x == ext_map(e.extension)
  IN  [e EXCEPT !.magic = IF x # None THEN x
                          ELSE IF m # None THEN m ELSE Some("UNKNOWN")]

\* lines 149-150
MagicStage(e, f) ==
  LET m == detect_magic(f, read_initial(f))
  IN  [e EXCEPT !.magic = IF m # None THEN m ELSE Some("UNKNOWN")]

\* the whole content read only below 5 MiB
EntropyInput_Exclusive(f, size) ==
  IF size < 5 * 1024 * 1024
  THEN <<read(f, 0, f.size)>>
  ELSE <<read(f, 0, SAMPLE_CHUNK),
         read(f, size \div 2, SAMPLE_CHUNK),
         read(f, Max({0, size - SAMPLE_CHUNK}), SAMPLE_CHUNK)>>

\* lines 155-166: the buffers whose concatenation the entropy is computed over
EntropyInput(f, size) ==
  IF size <= 5 * 1024 * 1024
  THEN <<read(f, 0, f.size)>>
  ELSE <<read(f, 0, SAMPLE_CHUNK),
         read(f, size \div 2, SAMPLE_CHUNK),
         read(f, Max({0, size - SAMPLE_CHUNK}), SAMPLE_CHUNK)>>

\* the bytes of a buffer
BytesOf(f, buf) == [i \in 1..buf.len |-> ByteAt(f, buf.start + i - 1)]

RECURSIVE Concat(_, _, _)
Concat(f, bufs, i) ==
  IF i > Len(bufs) THEN <<>> ELSE BytesOf(f, bufs[i]) \o Concat(f, bufs, i + 1)

\* what shannon_entropy_bytes can return for the buffers read: its value when
\* every byte of the file is given, else one of the values the content can have
EntropyOutcomes(f, input) ==
  IF KnownContent(f)
  THEN {shannon_entropy_bytes(Concat(f, input, 1))}
  ELSE EntropyValues(f.size) \cup (IF PlainContent(f) THEN EntropyBounds ELSE {})

\* the two thresholds tested one after the other
EntropyStage_NoElif(e, ent) ==
  LET e1 == [e EXCEPT !.entropy = Some(ent)]
      e2 == IF ent >= ENTROPY_UNMISTAKABLE
            THEN [e1 EXCEPT !.reasons = Append(@, Reason("high entropy", "", ent, "")),
                            !.score = @ + 3]
            ELSE e1
  IN  IF ent >= ENTROPY_SUSPICIOUS
      THEN [e2 EXCEPT !.reasons = Append(@, Reason("elevated entropy", "", ent, "")),
                      !.score = @ + 1]
      ELSE e2

\* lines 167-173, ent the entropy computed
EntropyStage(e, ent) ==
  LET e1 == [e EXCEPT !.entropy = Some(ent)]
  IN  IF ent >= ENTROPY_UNMISTAKABLE
      THEN [e1 EXCEPT !.reasons = Append(@, Reason("high entropy", "", ent, "")),
                      !.score = @ + 3]
      ELSE IF ent >= ENTROPY_SUSPICIOUS
      THEN [e1 EXCEPT !.reasons = Append(@, Reason("elevated entropy", "", ent, "")),
                      !.score = @ + 1]
      ELSE e1

\* lines 174-175
EntropyError(e) ==
  [e EXCEPT !.reasons = Append(@, Reason("entropy: error computing", "", 0, ""))]

\* the threshold itself triggers
DensityStage_AtThreshold(e, w, h) ==
  LET e1 == [e EXCEPT !.w = w, !.h = h]
  IN  IF w # None /\ h # None /\ w # Some(0) /\ h # Some(0)
      THEN LET bpp == bytes_per_pixel(e.filesize, w, h)
               e2 == [e1 EXCEPT !.bpp = bpp]
           IN  IF bpp # None /\ bpp[1][1] # 0
                  /\ bpp[1][1] >= BPP_THRESHOLD * bpp[1][2]
               THEN [e2 EXCEPT
                       !.reasons = Append(@, Reason("bytes_per_pixel", "",
                           (200 * bpp[1][1] + bpp[1][2]) \div (2 * bpp[1][2]), "")),
                       !.score = @ + 2]
               ELSE e2
      ELSE e1

\* lines 178-185, w and h what try_image_dimensions returned; the reason shows
\* bytes per pixel with two decimals (num is hundredths, rounded)
DensityStage(e, w, h) ==
  LET e1 == [e EXCEPT !.w = w, !.h = h]
  IN  IF w # None /\ h # None /\ w # Some(0) /\ h # Some(0)
      THEN LET bpp == bytes_per_pixel(e.filesize, w, h)
               e2 == [e1 EXCEPT !.bpp = bpp]
           IN  IF bpp # None /\ bpp[1][1] # 0
                  /\ bpp[1][1] > BPP_THRESHOLD * bpp[1][2]
               THEN [e2 EXCEPT
                       !.reasons = Append(@, Reason("bytes_per_pixel", "",
                           (200 * bpp[1][1] + bpp[1][2]) \div (2 * bpp[1][2]), "")),
                       !.score = @ + 2]
               ELSE e2
      ELSE e1

\* only executables weigh
EmbeddedWeight_ExecOnly(name) == IF name \in {"DEX", "ELF", "PE/MZ"} THEN 5 ELSE 0

\* the weight of one embedded finding, lines 193-196
EmbeddedWeight(name) == IF name \in {"DEX", "ELF", "PE/MZ"} THEN 5 ELSE 3

RECURSIVE AddFindings(_, _, _)
AddFindings(e, embedded, i) ==
  IF i > Len(embedded) THEN e
  ELSE AddFindings(
         [e EXCEPT !.reasons = Append(@, Reason("found", embedded[i].name,
                                                embedded[i].offset, "")),
                   !.score = @ + EmbeddedWeight(embedded[i].name)],
         embedded, i + 1)

\* lines 188-196
EmbeddedStage(e, f) ==
  LET embedded == scan_for_embedded(f, e.magic)
  IN  AddFindings([e EXCEPT !.embedded = embedded], embedded, 1)

\* the mismatch is put in front of the reasons
ExtensionStage_Prepend(e) ==
  LET expected == ext_map(e.extension)
  IN  IF expected # None /\ e.magic # expected
      THEN [e EXCEPT !.reasons = <<Reason("magic does not match extension",
                                          e.magic[1], 0, e.extension)>> \o @,
                     !.score = @ + 2]
      ELSE e

\* the extension check accepting an unrecognised content
ExtensionStage_UnknownOk(e) ==
  LET expected == ext_map(e.extension)
  IN  IF expected # None /\ e.magic # expected /\ e.magic # Some("UNKNOWN")
      THEN [e EXCEPT !.reasons = Append(@, Reason("magic does not match extension",
                                                  e.magic[1], 0, e.extension)),
                     !.score = @ + 2]
      ELSE e

\* the extension check without the test that an expected magic exists
ExtensionStage_NoExpectedTest(e) ==
  LET expected == ext_map(e.extension)
  IN  IF e.magic # expected
      THEN [e EXCEPT !.reasons = Append(@, Reason("magic does not match extension",
                                                  e.magic[1], 0, e.extension)),
                     !.score = @ + 2]
      ELSE e

\* the extension check raising the score without recording a reason
ExtensionStage_NoReason(e) ==
  LET expected == ext_map(e.extension)
  IN  IF expected # None /\ e.magic # expected
      THEN [e EXCEPT !.score = @ + 2]
      ELSE e

\* lines 214-217
ExtensionStage(e) ==
  LET expected == ext_map(e.extension)
  IN  IF expected # None /\ e.magic # expected
      THEN [e EXCEPT !.reasons = Append(@, Reason("magic does not match extension",
                                                  e.magic[1], 0, e.extension)),
                     !.score = @ + 2]
      ELSE e

\* the report test without its test of the reasons
Flagged_PositiveScore(res) == res.score > 0

\* the report test taken from the score alone
Flagged_ScoreOnly(res) == res.score >= 3

\* main, line 271: whether the report lists the result
Flagged(res) == res.score > 0 \/ Len(res.reasons) > 0

-----------------------------------------------------------------------------
(* The state machine: one call of analyze_file, then main's report test *)

\* no entry: before the call, and after the call raised (the entry is lost)
NoEntry ==
  [path |-> [dir |-> <<>>, stem |-> "", suffix |-> ""], filesize |-> 0,
   magic |-> None,
   extension |-> "", entropy |-> None, w |-> None, h |-> None, bpp |-> None,
   embedded |-> <<>>, reasons |-> <<>>, score |-> 0]

\* permisions.py is not running
NoPerms ==
  [pc |-> "none", all_permissions |-> <<>>, i |-> 0,
   dangerous_permissions |-> <<>>, signature_permissions |-> <<>>,
   normal_permissions |-> <<>>, output |-> <<>>]

\* analyze_file called on its own: main is not running
NoMain ==
  [pc |-> "none", root |-> "none", todo |-> <<>>, results |-> <<>>,
   total_files |-> 0, found_count |-> 0, ri |-> 0, output |-> <<>>]

Init ==
  /\ file \in Files
  /\ pc = "call"
  /\ entry = NoEntry
  /\ stages = <<>>
  /\ listed = FALSE
  /\ ent_input = <<>>
  /\ handles = {}
  /\ perms = NoPerms
  /\ main = NoMain

\* the empty-file check without its return
Begin_NoReturn ==
  /\ pc = "call"
  /\ LET e == NewEntry(file)
     IN  IF e.filesize = 0
         THEN /\ entry' = EmptyCheck(e)
              /\ pc' = "magic"
         ELSE /\ entry' = e
              /\ pc' = "magic"
  /\ stages' = Append(stages, "empty")
  /\ UNCHANGED <<file, listed, ent_input, main, handles, perms>>

\* the reasons and the score of the call before are kept
Begin_KeepsReasons ==
  /\ pc = "call"
  /\ LET e == [NewEntry(file) EXCEPT !.reasons = entry.reasons,
                                     !.score = entry.score]
     IN  IF e.filesize = 0
         THEN /\ entry' = EmptyCheck(e)
              /\ pc' = "done"
         ELSE /\ entry' = e
              /\ pc' = "magic"
  /\ stages' = Append(stages, "empty")
  /\ UNCHANGED <<file, listed, ent_input, main, handles, perms>>

\* lines 131-147: build the entry; an empty file returns at once
Begin ==
  /\ pc = "call"
  /\ LET e == NewEntry(file)
     IN  IF e.filesize = 0
         THEN /\ entry' = EmptyCheck(e)
              /\ pc' = "done"
         ELSE /\ entry' = e
              /\ pc' = "magic"
  /\ stages' = Append(stages, "empty")
  /\ UNCHANGED <<file, listed, ent_input, main, handles, perms>>

\* lines 149-151
Magic ==
  /\ pc = "magic"
  /\ entry' = MagicStage(entry, file)
  /\ pc' = "entropy"
  /\ stages' = Append(stages, "magic")
  /\ UNCHANGED <<file, listed, ent_input, main, handles, perms>>

\* read_initial raises (the file cannot be opened or read): analyze_file raises
MagicRaises ==
  /\ pc = "magic"
  /\ pc' = "raised"
  /\ entry' = NoEntry
  /\ UNCHANGED <<file, stages, listed, ent_input, main, handles, perms>>

\* lines 154-173: the reads succeed; ent_input keeps the buffers read
Entropy ==
  /\ pc = "entropy"
  /\ LET input == EntropyInput(file, entry.filesize)
     IN  /\ ent_input' = input
         /\ \E ent \in EntropyOutcomes(file, input) :
               entry' = EntropyStage(entry, ent)
  /\ pc' = "density"
  /\ stages' = Append(stages, "entropy")
  /\ UNCHANGED <<file, listed, main, handles, perms>>

\* no handler around the entropy reads
EntropyFails_Raises ==
  /\ pc = "entropy"
  /\ entry' = NoEntry
  /\ pc' = "raised"
  /\ stages' = Append(stages, "entropy")
  /\ UNCHANGED <<file, listed, ent_input, main, handles, perms>>

\* lines 174-175: a read of the entropy stage raises
EntropyFails ==
  /\ pc = "entropy"
  /\ entry' = EntropyError(entry)
  /\ pc' = "density"
  /\ stages' = Append(stages, "entropy")
  /\ UNCHANGED <<file, listed, ent_input, main, handles, perms>>

\* lines 178-185: the image decodes
Density ==
  /\ pc = "density"
  /\ Decodable(file)
  /\ \E d \in DimensionValues : entry' = DensityStage(entry, Some(d[1]), Some(d[2]))
  /\ pc' = "embedded"
  /\ stages' = Append(stages, "density")
  /\ UNCHANGED <<file, listed, ent_input, main, handles, perms>>

\* no handler around Image.open
DensityNoImage_Raises ==
  /\ pc = "density"
  /\ entry' = NoEntry
  /\ pc' = "raised"
  /\ stages' = Append(stages, "density")
  /\ UNCHANGED <<file, listed, ent_input, main, handles, perms>>

\* lines 75-87: try_image_dimensions returns (None, None)
DensityNoImage ==
  /\ pc = "density"
  /\ entry' = DensityStage(entry, None, None)
  /\ pc' = "embedded"
  /\ stages' = Append(stages, "density")
  /\ UNCHANGED <<file, listed, ent_input, main, handles, perms>>

\* lines 188-196
Embedded ==
  /\ pc = "embedded"
  /\ entry' = EmbeddedStage(entry, file)
  /\ pc' = "extension"
  /\ stages' = Append(stages, "embedded")
  /\ UNCHANGED <<file, listed, ent_input, main, handles, perms>>

\* scan_for_embedded raises (os.path.getsize or open fails): analyze_file raises
EmbeddedRaises ==
  /\ pc = "embedded"
  /\ pc' = "raised"
  /\ entry' = NoEntry
  /\ UNCHANGED <<file, stages, listed, ent_input, main, handles, perms>>

\* lines 199-219
Extension ==
  /\ pc = "extension"
  /\ entry' = ExtensionStage(entry)
  /\ pc' = "done"
  /\ stages' = Append(stages, "extension")
  /\ UNCHANGED <<file, listed, ent_input, main, handles, perms>>

\* main, lines 270-276
Report ==
  /\ pc = "done"
  /\ listed' = Flagged(entry)
  /\ pc' = "reported"
  /\ UNCHANGED <<file, entry, stages, ent_input, main, handles, perms>>

Next ==
  \/ Begin
  \/ Magic
  \/ MagicRaises
  \/ Entropy
  \/ EntropyFails
  \/ Density
  \/ DensityNoImage
  \/ Embedded
  \/ EmbeddedRaises
  \/ Extension
  \/ Report

Spec == Init /\ [][Next]_vars

(***************************************************************************)
(* analyze_file on the files given byte by byte: the entropy is computed.  *)
(* None of them decodes as an image.                                       *)
(***************************************************************************)
InitKnown ==
  /\ file \in KnownFiles \cup FilesOfSize(0)
  /\ pc = "call"
  /\ entry = NoEntry
  /\ stages = <<>>
  /\ listed = FALSE
  /\ ent_input = <<>>
  /\ handles = {}
  /\ perms = NoPerms
  /\ main = NoMain

NextKnown ==
  \/ Begin
  \/ Magic
  \/ MagicRaises
  \/ Entropy
  \/ EntropyFails
  \/ DensityNoImage
  \/ Embedded
  \/ EmbeddedRaises
  \/ Extension
  \/ Report

SpecKnown == InitKnown /\ [][NextKnown]_vars

(***************************************************************************)
(* analyze_file on the files around 5 MiB                                  *)
(***************************************************************************)
InitLarge ==
  /\ file \in LargeFiles
  /\ pc = "call"
  /\ entry = NoEntry
  /\ stages = <<>>
  /\ listed = FALSE
  /\ ent_input = <<>>
  /\ handles = {}
  /\ perms = NoPerms
  /\ main = NoMain

SpecLarge == InitLarge /\ [][Next]_vars

(***************************************************************************)
(* main: the walk over the files below the root, one analyze_file call per *)
(* selected file, then the report                                          *)
(***************************************************************************)
\* the longest listing of the root
MaxWalk == 2

\* what rglob can list: a PNG image, a DEX file under assets/ with an ELF
\* signature inside, an empty .so file, a .gif path whose file is gone when
\* it is analysed, an .xml file, and a directory named like an image
ScanEntries ==
  {[is_file |-> TRUE,
    file |-> [exists |-> TRUE, size |-> 80,
              path |-> [dir |-> <<"res">>, stem |-> "a", suffix |-> ".png"],
              data |-> (0 :> PNG_SIG @@ 16 :> <<>>)]],
   [is_file |-> TRUE,
    file |-> [exists |-> TRUE, size |-> HEADER_READ + 1,
              path |-> [dir |-> <<"assets">>, stem |-> "b", suffix |-> ".dat"],
              data |-> (0 :> DEX_SIG @@ 16 :> ELF_SIG)]],
   [is_file |-> TRUE,
    file |-> [exists |-> TRUE, size |-> 0,
              path |-> [dir |-> <<"res">>, stem |-> "c", suffix |-> ".so"],
              data |-> <<>>]],
   [is_file |-> TRUE,
    file |-> [exists |-> FALSE, size |-> 0,
              path |-> [dir |-> <<"res">>, stem |-> "d", suffix |-> ".gif"],
              data |-> <<>>]],
   [is_file |-> TRUE,
    file |-> [exists |-> TRUE, size |-> 80,
              path |-> [dir |-> <<"res">>, stem |-> "e", suffix |-> ".xml"],
              data |-> (0 :> <<>> @@ 16 :> <<>>)]],
   [is_file |-> FALSE,
    file |-> [exists |-> TRUE, size |-> 0,
              path |-> [dir |-> <<"res">>, stem |-> "f", suffix |-> ".png"],
              data |-> <<>>]]}

\* the listings of the root: entries in any order, none twice
Listings ==
  {l \in UNION {[1..n -> ScanEntries] : n \in 0..MaxWalk} :
     \A i, j \in 1..Len(l) : i # j => l[i] # l[j]}

NoFile ==
  [exists |-> FALSE, size |-> 0,
   path |-> [dir |-> <<>>, stem |-> "", suffix |-> ""], data |-> <<>>]

\* "assets" in file_path.parts: a directory of the path, or the file's name
InParts(part, path) ==
  \/ \E i \in 1..Len(path.dir) : path.dir[i] = part
  \/ path.stem = part /\ path.suffix = ""

\* lines 221-238
should_scan_file(file_path) ==
  LET ext == Lower(file_path.suffix)
  IN  IF ext \in {".png", ".jpg", ".jpeg", ".gif", ".webp"} THEN TRUE
      ELSE IF ext = ".so" THEN TRUE
      ELSE IF InParts("assets", file_path) THEN TRUE
      ELSE IF ext = ".xml" THEN FALSE
      ELSE FALSE

Line(kind, res, found, total) ==
  [kind |-> kind, path |-> res.path, magic |-> res.magic, reasons |-> res.reasons,
   found |-> found, total |-> total]

\* the root is no argument at all, a path that does not exist, one file, or a
\* directory
InitMain ==
  /\ file = NoFile
  /\ pc = "idle"
  /\ entry = NoEntry
  /\ stages = <<>>
  /\ listed = FALSE
  /\ ent_input = <<>>
  /\ handles = {}
  /\ perms = NoPerms
  /\ \E root \in {"noarg", "missing", "file", "dir"} :
     \E todo \in Listings :
        /\ root \in {"noarg", "missing"} => todo = <<>>
        /\ root = "file" => Len(todo) = 1 /\ todo[1].is_file
        /\ main = [NoMain EXCEPT !.pc = "start", !.root = root, !.todo = todo]

\* lines 242-256
Start ==
  /\ main.pc = "start"
  /\ main' = IF main.root = "noarg"
             THEN [main EXCEPT !.pc = "exit",
                               !.output = Append(@, Line("ERROR", NoEntry, 0, 0))]
             ELSE IF main.root = "missing"
             THEN [main EXCEPT !.pc = "returned",
                               !.output = Append(@, Line("NOPATH", NoEntry, 0, 0))]
             ELSE [main EXCEPT !.pc = "walk", !.results = <<>>, !.total_files = 0]
  /\ UNCHANGED <<file, pc, entry, stages, listed, ent_input, handles, perms>>

\* lines 257-259 and 262-265: the next path, and the call of analyze_file when
\* it is selected
Visit ==
  /\ main.pc = "walk"
  /\ pc = "idle"
  /\ main.todo # <<>>
  /\ LET d == Head(main.todo)
     IN  IF (main.root = "file" \/ d.is_file) /\ should_scan_file(d.file.path)
         THEN /\ main' = [main EXCEPT !.todo = Tail(@), !.total_files = @ + 1]
              /\ file' = d.file
              /\ pc' = "call"
              /\ stages' = <<>>
              /\ ent_input' = <<>>
         ELSE /\ main' = [main EXCEPT !.todo = Tail(@)]
              /\ UNCHANGED <<file, pc, stages, ent_input>>
  /\ UNCHANGED <<entry, listed, handles, perms>>

\* lines 260 and 266: analyze_file returned
Collect ==
  /\ main.pc = "walk"
  /\ pc = "done"
  /\ main' = [main EXCEPT !.results = Append(@, entry)]
  /\ pc' = "idle"
  /\ UNCHANGED <<file, entry, stages, listed, ent_input, handles, perms>>

\* lines 259 and 265 stand in no try block: what analyze_file raises leaves
\* main, and the interpreter ends with a traceback
Abort ==
  /\ main.pc = "walk"
  /\ pc = "raised"
  /\ main' = [main EXCEPT !.pc = "crashed"]
  /\ UNCHANGED <<file, pc, entry, stages, listed, ent_input, handles, perms>>

\* line 269, the walk is over
WalkDone ==
  /\ main.pc = "walk"
  /\ pc = "idle"
  /\ main.todo = <<>>
  /\ main' = [main EXCEPT !.pc = "report", !.found_count = 0, !.ri = 1]
  /\ UNCHANGED <<file, pc, entry, stages, listed, ent_input, handles, perms>>

\* lines 270-276, one result
ReportResult ==
  /\ main.pc = "report"
  /\ main.ri <= Len(main.results)
  /\ LET res == main.results[main.ri]
     IN  main' = IF Flagged(res)
                 THEN [main EXCEPT !.output = Append(@, Line("FOUND", res, 0, 0)),
                                   !.found_count = @ + 1,
                                   !.ri = @ + 1]
                 ELSE [main EXCEPT !.ri = @ + 1]
  /\ UNCHANGED <<file, pc, entry, stages, listed, ent_input, handles, perms>>

\* line 279
Total ==
  /\ main.pc = "report"
  /\ main.ri > Len(main.results)
  /\ main' = [main EXCEPT !.pc = "end",
                 !.output = Append(@, Line("TOTAL", NoEntry, main.found_count,
                                           main.total_files))]
  /\ UNCHANGED <<file, pc, entry, stages, listed, ent_input, handles, perms>>

\* lines 262-282: Ctrl-C raises KeyboardInterrupt in the walk or in the
\* report; nothing catches it (except Exception at line 174 does not), so the
\* interpreter ends with a traceback
Interrupt ==
  /\ main.pc \in {"walk", "report"}
  /\ main' = [main EXCEPT !.pc = "interrupted"]
  /\ UNCHANGED <<file, pc, entry, stages, listed, ent_input, handles, perms>>

NextMain ==
  \/ Start
  \/ Visit
  \/ Begin
  \/ Magic
  \/ MagicRaises
  \/ Entropy
  \/ EntropyFails
  \/ Density
  \/ DensityNoImage
  \/ Embedded
  \/ EmbeddedRaises
  \/ Extension
  \/ Collect
  \/ Abort
  \/ WalkDone
  \/ ReportResult
  \/ Total
  \/ Interrupt

SpecMain == InitMain /\ [][NextMain]_vars

(***************************************************************************)
(* a caller of analyze_file: three calls, the first and the third on the   *)
(* same path, the file contents unchanged                                  *)
(***************************************************************************)
\* a file of three bytes, all given
SmallFile ==
  [exists |-> TRUE, size |-> 3,
   path |-> [dir |-> <<"res">>, stem |-> "k", suffix |-> ".png"],
   data |-> (0 :> <<0, 65, 65>>)]

CallFiles ==
  {SmallFile} \cup {d.file : d \in {x \in ScanEntries : x.is_file /\ x.file.exists}}

InitCalls ==
  /\ file = NoFile
  /\ pc = "idle"
  /\ entry = NoEntry
  /\ stages = <<>>
  /\ listed = FALSE
  /\ ent_input = <<>>
  /\ handles = {}
  /\ perms = NoPerms
  /\ \E f, g \in CallFiles :
        main = [NoMain EXCEPT !.pc = "caller", !.todo = <<f, g, f>>]

\* line 129: analyze_file is called with the next path
Call ==
  /\ main.pc = "caller"
  /\ pc = "idle"
  /\ main.todo # <<>>
  /\ main' = [main EXCEPT !.todo = Tail(@)]
  /\ file' = Head(main.todo)
  /\ pc' = "call"
  /\ stages' = <<>>
  /\ ent_input' = <<>>
  /\ UNCHANGED <<entry, listed, handles, perms>>

\* line 219: the caller keeps the entry returned
Return ==
  /\ main.pc = "caller"
  /\ pc = "done"
  /\ main' = [main EXCEPT !.results = Append(@, entry)]
  /\ pc' = "idle"
  /\ UNCHANGED <<file, entry, stages, listed, ent_input, handles, perms>>

NextCalls ==
  \/ Call
  \/ Begin
  \/ Magic
  \/ MagicRaises
  \/ Entropy
  \/ EntropyFails
  \/ Density
  \/ DensityNoImage
  \/ Embedded
  \/ EmbeddedRaises
  \/ Extension
  \/ Return

SpecCalls == InitCalls /\ [][NextCalls]_vars

(***************************************************************************)
(* analyze_file with every open, read and close of a file as a step of its *)
(* own: two calls of a caller, the handles open in `handles`               *)
(***************************************************************************)
Handle(f, by) == [path |-> f.path, by |-> by]

InitHandles ==
  /\ file = NoFile
  /\ pc = "idle"
  /\ entry = NoEntry
  /\ stages = <<>>
  /\ listed = FALSE
  /\ ent_input = <<>>
  /\ handles = {}
  /\ perms = NoPerms
  /\ \E f, g \in {d.file : d \in {x \in ScanEntries : x.is_file}} :
        main = [NoMain EXCEPT !.pc = "caller", !.todo = <<f, g>>]

\* line 55: open(path, "rb") in read_initial
OpenHeader ==
  /\ pc = "magic"
  /\ handles' = handles \cup {Handle(file, "read_initial")}
  /\ pc' = "magic.read"
  /\ stages' = Append(stages, "magic")
  /\ UNCHANGED <<file, entry, listed, ent_input, main, perms>>

\* lines 55-56 and 150: the read, the end of the with block, detect_magic
ReadHeader ==
  /\ pc = "magic.read"
  /\ entry' = MagicStage(entry, file)
  /\ handles' = handles \ {Handle(file, "read_initial")}
  /\ pc' = "entropy"
  /\ UNCHANGED <<file, stages, listed, ent_input, main, perms>>

\* the with block is left without closing the file
ReadHeaderFails_Leak ==
  /\ pc = "magic.read"
  /\ entry' = NoEntry
  /\ pc' = "raised"
  /\ UNCHANGED <<file, stages, listed, ent_input, main, handles, perms>>

\* lines 55-56: f.read raises; the with block closes the file on the way out
ReadHeaderFails ==
  /\ pc = "magic.read"
  /\ entry' = NoEntry
  /\ handles' = handles \ {Handle(file, "read_initial")}
  /\ pc' = "raised"
  /\ UNCHANGED <<file, stages, listed, ent_input, main, perms>>

\* lines 156 and 160: open(path, "rb") in the entropy stage
OpenEntropy ==
  /\ pc = "entropy"
  /\ handles' = handles \cup {Handle(file, "entropy")}
  /\ pc' = "entropy.read"
  /\ stages' = Append(stages, "entropy")
  /\ UNCHANGED <<file, entry, listed, ent_input, main, perms>>

\* lines 157-173: the reads, the end of the with block, the entropy
ReadEntropy ==
  /\ pc = "entropy.read"
  /\ LET input == EntropyInput(file, entry.filesize)
     IN  /\ ent_input' = input
         /\ \E ent \in EntropyOutcomes(file, input) :
               entry' = EntropyStage(entry, ent)
  /\ handles' = handles \ {Handle(file, "entropy")}
  /\ pc' = "density"
  /\ UNCHANGED <<file, stages, listed, main, perms>>

\* lines 157-165 and 174-175: a read or a seek raises; the with block closes
\* the file and the handler appends the reason
ReadEntropyFails ==
  /\ pc = "entropy.read"
  /\ entry' = EntropyError(entry)
  /\ handles' = handles \ {Handle(file, "entropy")}
  /\ pc' = "density"
  /\ UNCHANGED <<file, stages, listed, ent_input, main, perms>>

\* line 84: Image.open(path) succeeds
OpenImage ==
  /\ pc = "density"
  /\ Decodable(file)
  /\ handles' = handles \cup {Handle(file, "image")}
  /\ pc' = "density.read"
  /\ stages' = Append(stages, "density")
  /\ UNCHANGED <<file, entry, listed, ent_input, main, perms>>

\* lines 84-85 and 178-185: the size is taken, the with block closes the image
ReadImage ==
  /\ pc = "density.read"
  /\ \E d \in DimensionValues : entry' = DensityStage(entry, Some(d[1]), Some(d[2]))
  /\ handles' = handles \ {Handle(file, "image")}
  /\ pc' = "embedded"
  /\ UNCHANGED <<file, stages, listed, ent_input, main, perms>>

\* line 102: open(path, "rb") in scan_for_embedded
OpenScan ==
  /\ pc = "embedded"
  /\ handles' = handles \cup {Handle(file, "scan_for_embedded")}
  /\ pc' = "embedded.read"
  /\ stages' = Append(stages, "embedded")
  /\ UNCHANGED <<file, entry, listed, ent_input, main, perms>>

\* lines 103-127 and 189-196: head and tail are read, the with block ends
ReadScan ==
  /\ pc = "embedded.read"
  /\ entry' = EmbeddedStage(entry, file)
  /\ handles' = handles \ {Handle(file, "scan_for_embedded")}
  /\ pc' = "extension"
  /\ UNCHANGED <<file, stages, listed, ent_input, main, perms>>

\* lines 103-118: a read or the seek raises; the with block closes the file
ReadScanFails ==
  /\ pc = "embedded.read"
  /\ entry' = NoEntry
  /\ handles' = handles \ {Handle(file, "scan_for_embedded")}
  /\ pc' = "raised"
  /\ UNCHANGED <<file, stages, listed, ent_input, main, perms>>

NextHandles ==
  \/ Call
  \/ Begin
  \/ OpenHeader
  \/ MagicRaises
  \/ ReadHeader
  \/ ReadHeaderFails
  \/ OpenEntropy
  \/ EntropyFails
  \/ ReadEntropy
  \/ ReadEntropyFails
  \/ OpenImage
  \/ DensityNoImage
  \/ ReadImage
  \/ OpenScan
  \/ EmbeddedRaises
  \/ ReadScan
  \/ ReadScanFails
  \/ Extension
  \/ Return

SpecHandles == InitHandles /\ [][NextHandles]_vars

(***************************************************************************)
(* permisions.py: the uses-permission names of the manifest are sorted     *)
(* into three lists and counted                                            *)
(***************************************************************************)
\* the most uses-permission entries of a manifest
MaxPerms == 3

\* lines 7-49
DANGEROUS_PERMISSIONS ==
  <<
    "android.permission.ACCEPT_HANDOVER",
    "android.permission.ACCESS_BACKGROUND_LOCATION",
    "android.permission.ACCESS_COARSE_LOCATION",
    "android.permission.ACCESS_FINE_LOCATION",
    "android.permission.ACCESS_MEDIA_LOCATION",
    "android.permission.ACTIVITY_RECOGNITION",
    "android.permission.ADD_VOICEMAIL",
    "android.permission.ANSWER_PHONE_CALLS",
    "android.permission.BLUETOOTH_ADVERTISE",
    "android.permission.BLUETOOTH_CONNECT",
    "android.permission.BLUETOOTH_SCAN",
    "android.permission.BODY_SENSORS",
    "android.permission.BODY_SENSORS_BACKGROUND",
    "android.permission.CALL_PHONE",
    "android.permission.CAMERA",
    "android.permission.GET_ACCOUNTS",
    "android.permission.NEARBY_WIFI_DEVICES",
    "android.permission.POST_NOTIFICATIONS",
    "android.permission.PROCESS_OUTGOING_CALLS",
    "android.permission.READ_CALENDAR",
    "android.permission.READ_CALL_LOG",
    "android.permission.READ_CONTACTS",
    "android.permission.READ_EXTERNAL_STORAGE",
    "android.permission.READ_MEDIA_AUDIO",
    "android.permission.READ_MEDIA_IMAGES",
    "android.permission.READ_MEDIA_VIDEO",
    "android.permission.READ_MEDIA_VISUAL_USER_SELECTED",
    "android.permission.READ_PHONE_NUMBERS",
    "android.permission.READ_PHONE_STATE",
    "android.permission.READ_SMS",
    "android.permission.RECEIVE_MMS",
    "android.permission.RECEIVE_SMS",
    "android.permission.RECEIVE_WAP_PUSH",
    "android.permission.RECORD_AUDIO",
    "android.permission.SEND_SMS",
    "android.permission.USE_SIP",
    "android.permission.UWB_RANGING",
    "android.permission.WRITE_CALENDAR",
    "android.permission.WRITE_CALL_LOG",
    "android.permission.WRITE_CONTACTS",
    "android.permission.WRITE_EXTERNAL_STORAGE"
  >>

\* lines 51-133
SIGNATURE_PERMISSIONS ==
  <<
    "android.permission.ACCOUNT_MANAGER",
    "android.permission.BATTERY_STATS",
    "android.permission.BIND_ACCESSIBILITY_SERVICE",
    "android.permission.BIND_APPWIDGET",
    "android.permission.BIND_CARRIER_SERVICES",
    "android.permission.BIND_CHOOSER_TARGET_SERVICE",
    "android.permission.BIND_CONDITION_PROVIDER_SERVICE",
    "android.permission.BIND_DEVICE_ADMIN",
    "android.permission.BIND_DREAM_SERVICE",
    "android.permission.BIND_INPUT_METHOD",
    "android.permission.BIND_MIDI_DEVICE_SERVICE",
    "android.permission.BIND_NFC_SERVICE",
    "android.permission.BIND_NOTIFICATION_LISTENER_SERVICE",
    "android.permission.BIND_PRINT_SERVICE",
    "android.permission.BIND_QUICK_SETTINGS_TILE",
    "android.permission.BIND_REMOTEVIEWS",
    "android.permission.BIND_SCREENING_SERVICE",
    "android.permission.BIND_TELECOM_CONNECTION_SERVICE",
    "android.permission.BIND_TEXT_SERVICE",
    "android.permission.BIND_TV_INPUT",
    "android.permission.BIND_VISUAL_VOICEMAIL_SERVICE",
    "android.permission.BIND_VOICE_INTERACTION",
    "android.permission.BIND_VPN_SERVICE",
    "android.permission.BIND_VR_LISTENER_SERVICE",
    "android.permission.BIND_WALLPAPER",
    "android.permission.BRICK",
    "android.permission.BROADCAST_PACKAGE_REMOVED",
    "android.permission.BROADCAST_SMS",
    "android.permission.BROADCAST_WAP_PUSH",
    "android.permission.CALL_PRIVILEGED",
    "android.permission.CAPTURE_AUDIO_OUTPUT",
    "android.permission.CHANGE_COMPONENT_ENABLED_STATE",
    "android.permission.CLEAR_APP_CACHE",
    "android.permission.CONTROL_LOCATION_UPDATES",
    "android.permission.DELETE_CACHE_FILES",
    "android.permission.DELETE_PACKAGES",
    "android.permission.DIAGNOSTIC",
    "android.permission.DUMP",
    "android.permission.FACTORY_TEST",
    "android.permission.FORCE_STOP_PACKAGES",
    "android.permission.GET_PACKAGE_SIZE",
    "android.permission.GLOBAL_SEARCH",
    "android.permission.INSTALL_LOCATION_PROVIDER",
    "android.permission.INSTALL_PACKAGES",
    "android.permission.INSTALL_SHORTCUT",
    "android.permission.INTERACT_ACROSS_USERS",
    "android.permission.INTERACT_ACROSS_USERS_FULL",
    "android.permission.INTERNAL_SYSTEM_WINDOW",
    "android.permission.MANAGE_DOCUMENTS",
    "android.permission.MANAGE_EXTERNAL_STORAGE",
    "android.permission.MANAGE_USB",
    "android.permission.MASTER_CLEAR",
    "android.permission.MEDIA_CONTENT_CONTROL",
    "android.permission.MODIFY_PHONE_STATE",
    "android.permission.MOUNT_FORMAT_FILESYSTEMS",
    "android.permission.MOUNT_UNMOUNT_FILESYSTEMS",
    "android.permission.PACKAGE_USAGE_STATS",
    "android.permission.QUERY_ALL_PACKAGES",
    "android.permission.READ_FRAME_BUFFER",
    "android.permission.READ_LOGS",
    "android.permission.READ_PRIVILEGED_PHONE_STATE",
    "android.permission.REBOOT",
    "android.permission.RECEIVE_BOOT_COMPLETED",
    "android.permission.REQUEST_IGNORE_BATTERY_OPTIMIZATIONS",
    "android.permission.REQUEST_INSTALL_PACKAGES",
    "android.permission.SEND_RESPOND_VIA_MESSAGE",
    "android.permission.SET_ALWAYS_FINISH",
    "android.permission.SET_ANIMATION_SCALE",
    "android.permission.SET_DEBUG_APP",
    "android.permission.SET_PREFERRED_APPLICATIONS",
    "android.permission.SET_PROCESS_LIMIT",
    "android.permission.SET_TIME",
    "android.permission.SET_TIME_ZONE",
    "android.permission.SIGNAL_PERSISTENT_PROCESSES",
    "android.permission.STATUS_BAR",
    "android.permission.SYSTEM_ALERT_WINDOW",
    "android.permission.UPDATE_DEVICE_STATS",
    "android.permission.WRITE_APN_SETTINGS",
    "android.permission.WRITE_GSERVICES",
    "android.permission.WRITE_SECURE_SETTINGS",
    "android.permission.WRITE_SETTINGS"
  >>

\* perm in table
In(perm, table) == \E k \in 1..Len(table) : table[k] = perm

\* names a manifest may use: two dangerous ones, a signature one, a platform
\* name of neither table, and a name an app defines
PermNames ==
  {"android.permission.CAMERA", "android.permission.READ_SMS",
   "android.permission.READ_LOGS", "android.permission.INTERNET",
   "com.example.permission.PUSH"}

\* line 143: what the xpath query returns, in document order
Manifests == UNION {[1..n -> PermNames] : n \in 0..MaxPerms}

InitPerms ==
  /\ file = NoFile
  /\ pc = "idle"
  /\ entry = NoEntry
  /\ stages = <<>>
  /\ listed = FALSE
  /\ ent_input = <<>>
  /\ handles = {}
  /\ main = NoMain
  /\ \E m \in Manifests :
        perms = [NoPerms EXCEPT !.pc = "for", !.all_permissions = m, !.i = 1]

\* the two tests are not chained: what is not a signature permission is normal
Categorize_NoElif ==
  /\ perms.pc = "for"
  /\ perms.i <= Len(perms.all_permissions)
  /\ LET perm == perms.all_permissions[perms.i]
         p1 == IF In(perm, DANGEROUS_PERMISSIONS)
               THEN [perms EXCEPT !.dangerous_permissions = Append(@, perm)]
               ELSE perms
         p2 == IF In(perm, SIGNATURE_PERMISSIONS)
               THEN [p1 EXCEPT !.signature_permissions = Append(@, perm)]
               ELSE [p1 EXCEPT !.normal_permissions = Append(@, perm)]
     IN  perms' = [p2 EXCEPT !.i = @ + 1]
  /\ UNCHANGED <<file, pc, entry, stages, listed, ent_input, main, handles>>

\* lines 150-156, one turn of the loop
Categorize ==
  /\ perms.pc = "for"
  /\ perms.i <= Len(perms.all_permissions)
  /\ LET perm == perms.all_permissions[perms.i]
         p1 == IF In(perm, DANGEROUS_PERMISSIONS)
               THEN [perms EXCEPT !.dangerous_permissions = Append(@, perm)]
               ELSE IF In(perm, SIGNATURE_PERMISSIONS)
               THEN [perms EXCEPT !.signature_permissions = Append(@, perm)]
               ELSE [perms EXCEPT !.normal_permissions = Append(@, perm)]
     IN  perms' = [p1 EXCEPT !.i = @ + 1]
  /\ UNCHANGED <<file, pc, entry, stages, listed, ent_input, main, handles>>

\* line 160
PrintTotal ==
  /\ perms.pc = "for"
  /\ perms.i > Len(perms.all_permissions)
  /\ perms' = [perms EXCEPT
                  !.pc = "lists",
                  !.output = Append(@, [kind |-> "TOTAL",
                                        normal |-> Len(perms.normal_permissions),
                                        dangerous |-> Len(perms.dangerous_permissions),
                                        signature |-> Len(perms.signature_permissions)])]
  /\ UNCHANGED <<file, pc, entry, stages, listed, ent_input, main, handles>>

\* one list with its heading, when it is not empty
Section(kind, list) ==
  IF list # <<>> THEN <<[kind |-> kind, list |-> list]>> ELSE <<>>

\* lines 162-178
PrintLists ==
  /\ perms.pc = "lists"
  /\ perms' = [perms EXCEPT
                  !.pc = "end",
                  !.output = @ \o Section("NORMAL", perms.normal_permissions)
                               \o Section("DANGEROUS", perms.dangerous_permissions)
                               \o Section("SIGNATURE", perms.signature_permissions)]
  /\ UNCHANGED <<file, pc, entry, stages, listed, ent_input, main, handles>>

NextPerms ==
  \/ Categorize
  \/ PrintTotal
  \/ PrintLists

SpecPerms == InitPerms /\ [][NextPerms]_vars

-----------------------------------------------------------------------------
(* Properties *)

\* the call has returned a result
Returned == pc \in {"done", "reported"}

\* the score mapping of the specification (score >= 6 dangerous, 3..5 suspicious,
\* else normal); the source computes no classification
Classification(score) ==
  IF score >= 6 THEN "dangerous" ELSE IF score >= 3 THEN "suspicious" ELSE "normal"

\* sig stands in f at position p
Occurs(f, sig, p) ==
  /\ p >= 0 /\ p + Len(sig) <= f.size
  /\ \A i \in 1..Len(sig) : ByteAt(f, p + i - 1) = sig[i]

HasReason(e, kind) == \E i \in 1..Len(e.reasons) : e.reasons[i].kind = kind

\* C1: for a file of size 0 the result has exactly the reason "empty file",
\* score 0, and no later stage (magic, entropy, density, embedded scan,
\* extension check) has run or left a trace in the result.
C1_EmptyFile ==
  (Returned /\ entry.filesize = 0) =>
     /\ entry.reasons = <<Reason("empty file", "", 0, "")>>
     /\ entry.score = 0
     /\ entry.magic = None /\ entry.entropy = None
     /\ entry.w = None /\ entry.h = None /\ entry.bpp = None
     /\ entry.embedded = <<>>
     /\ stages = <<"empty">>

C1_Witness ==
  /\ pc = "done" /\ file.exists /\ file.size = 0
  /\ entry.reasons = <<Reason("empty file", "", 0, "")>>

\* C2 (as claimed): the report flags a file according to the classification
\* that the mapping derives from its score: flagged exactly when not normal.
C2_FlaggedByClassification ==
  pc = "reported" => (listed <=> Classification(entry.score) # "normal")

\* C2 (amended): the result carries a score and no classification; the report
\* lists a file exactly when its score is at least 3 or it has any reason, so
\* files with a score below 3 that have a reason are listed too.
C2_FlaggedByScoreOrReasons ==
  /\ "classification" \notin DOMAIN entry
  /\ pc = "reported" => (listed <=> (entry.score >= 3 \/ Len(entry.reasons) > 0))

C2_Witness ==
  /\ pc = "reported" /\ listed
  /\ entry.score = 1 /\ Len(entry.reasons) = 1

\* C5: a positive score (hence any classification other than normal) implies
\* a non-empty reasons list, at every point of the analysis.
C5_ScoreHasReason == entry.score > 0 => Len(entry.reasons) > 0

C5_Witness == pc = "done" /\ entry.score >= 6 /\ Len(entry.reasons) = 2

\* the entry name "META-INF/", one of the markers of a signed archive
META_INF == <<77, 69, 84, 65, 45, 73, 78, 70, 47>>

\* f has a ZIP signature at a non-zero offset and a marker in its last 1 MiB
EmbeddedZipWithMarkers(f) ==
  /\ \E p \in Positions(f, 1) : p > 0 /\ Occurs(f, ZIP_SIG, p)
  /\ \E p \in Positions(f, 1) : p >= f.size - TAIL_SCAN /\ Occurs(f, META_INF, p)

HasFinding(e, name, offset) ==
  \E i \in 1..Len(e.embedded) :
     e.embedded[i].name = name /\ e.embedded[i].offset = offset

C4_EmbeddedElfDangerous ==
  Returned =>
    \A p \in Positions(file, 1) :
       (p > 0 /\ Occurs(file, ELF_SIG, p)) =>
          /\ \E j \in 1..Len(entry.reasons) :
                entry.reasons[j] = Reason("found", "ELF", p, "")
          /\ Classification(entry.score) = "dangerous"

\* sig is a prefix of the first HEADER_READ bytes of f
PrefixOfHead(f, sig) ==
  /\ Len(sig) <= HEADER_READ
  /\ Occurs(f, sig, 0)

\* C6: the detected magic of a non-empty file is the name of the first entry
\* of the table (in its order PNG, JPEG, GIF, RIFF/WEBP, ZIP/APK/JAR, DEX, ELF,
\* PE/MZ) whose bytes are a prefix of the first 4096 bytes, UNKNOWN when there
\* is none, whatever the extension.
C6_MagicIsFirstMatch ==
  (Returned /\ entry.filesize > 0) =>
    /\ [i \in 1..Len(MAGICS) |-> MAGICS[i].name] =
          <<"PNG", "JPEG", "GIF", "RIFF/WEBP", "ZIP/APK/JAR", "DEX", "ELF", "PE/MZ">>
    /\ \A i \in 1..Len(MAGICS) :
          (/\ PrefixOfHead(file, MAGICS[i].sig)
           /\ \A j \in 1..(i - 1) : ~PrefixOfHead(file, MAGICS[j].sig))
          => entry.magic = Some(MAGICS[i].name)
    /\ (\A i \in 1..Len(MAGICS) : ~PrefixOfHead(file, MAGICS[i].sig))
          => entry.magic = Some("UNKNOWN")

C6_Witness ==
  /\ pc = "done" /\ file.size > 0 /\ file.data[0] = PNG_SIG
  /\ entry.magic = Some("PNG") /\ entry.extension = ".so"

MismatchReason(e) ==
  Reason("magic does not match extension", e.magic[1], 0, e.extension)

\* C7: for a non-empty file whose extension has an expected magic, the
\* extension check appends the mismatch reason and adds 2 to the score exactly
\* when the detected magic differs from the expected one (UNKNOWN differs), and
\* otherwise changes neither.
C7_MismatchIff ==
  [][(pc = "extension" /\ ext_map(entry.extension) # None) =>
        IF entry.magic # ext_map(entry.extension)
        THEN /\ entry'.reasons = Append(entry.reasons, MismatchReason(entry))
             /\ entry'.score = entry.score + 2
        ELSE /\ entry'.reasons = entry.reasons
             /\ entry'.score = entry.score]_vars

C7_Witness ==
  /\ pc = "done" /\ entry.extension = ".png" /\ entry.magic = Some("UNKNOWN")
  /\ entry.reasons = <<MismatchReason(entry)>> /\ entry.score = 2

ImageExtensions == {".png", ".jpg", ".jpeg", ".gif", ".webp"}

\* C8 (as claimed): a mismatch reason is recorded only for the extensions
\* .png, .jpg, .jpeg, .gif, .webp.
C8_OnlyImageExtensions ==
  Returned => (HasReason(entry, "magic does not match extension")
                 => entry.extension \in ImageExtensions)

\* C8 (amended): a mismatch reason is recorded only for the extensions .png,
\* .jpg, .jpeg, .gif, .webp and .so; for every other extension the extension
\* check records no reason and leaves the score as it is.
C8_OnlyMappedExtensions ==
  /\ [](Returned => (HasReason(entry, "magic does not match extension")
                       => entry.extension \in ImageExtensions \cup {".so"}))
  /\ [][(pc = "extension" /\ entry.extension \notin ImageExtensions \cup {".so"})
           => (entry'.reasons = entry.reasons /\ entry'.score = entry.score)]_vars

C8_Witness ==
  /\ pc = "done" /\ entry.extension = ".xml" /\ entry.magic = Some("ELF")
  /\ entry.reasons = <<>> /\ entry.score = 0

\* the signatures the embedded scan is meant to look for
EmbeddedNames == {"ZIP/APK/JAR", "DEX", "ELF", "PE/MZ"}

\* C9 (as claimed): every occurrence of a ZIP, DEX, ELF or PE/MZ signature at
\* a non-zero offset that lies within the first 4096 bytes or within the last
\* 1 MiB of the file is an embedded finding.
C9_HeadAndTailScanned ==
  Returned =>
    \A i \in 1..Len(MAGICS) : \A p \in Positions(file, 1) :
       (/\ MAGICS[i].name \in EmbeddedNames
        /\ p > 0 /\ Occurs(file, MAGICS[i].sig, p)
        /\ \/ p + Len(MAGICS[i].sig) <= HEADER_READ
           \/ p >= file.size - TAIL_SCAN)
       => HasFinding(entry, MAGICS[i].name, p)

\* what analyze_file may pass as primary_magic
PrimaryMagics ==
  {None, Some("UNKNOWN")} \cup {Some(MAGICS[i].name) : i \in 1..Len(MAGICS)}

OwnHeader(found, primary_magic) ==
  \E i \in 1..Len(found) :
     found[i].offset = 0 /\ Some(found[i].name) = primary_magic

\* C10: the embedded findings never hold the file's own header: no finding of
\* a result pairs the detected magic with offset 0, and scan_for_embedded
\* returns no finding at offset 0 that matches the primary magic it was given.
C10_NoOwnHeader ==
  /\ Returned => ~OwnHeader(entry.embedded, entry.magic)
  /\ pc = "magic" =>
        \A pm \in PrimaryMagics : ~OwnHeader(scan_for_embedded(file, pm), pm)

C10_Witness ==
  /\ pc = "done" /\ file.size = HEADER_READ + 1 /\ file.data[0] = ELF_SIG
  /\ file.data[16] = ELF_SIG
  /\ entry.magic = Some("ELF") /\ entry.embedded = <<>>

\* the signature a finding's name stands for
SigOf(name) == MAGICS[CHOOSE i \in 1..Len(MAGICS) : MAGICS[i].name = name].sig

\* the findings are absolute offsets where the signature is
AbsoluteFindings(f, embedded) ==
  \A i \in 1..Len(embedded) :
     /\ 0 <= embedded[i].offset
     /\ embedded[i].offset < f.size
     /\ Occurs(f, SigOf(embedded[i].name), embedded[i].offset)

\* C11: every finding (name, offset) of scan_for_embedded on a file of size S
\* has 0 <= offset < S and the file's bytes at offset are name's signature,
\* whatever primary magic the scan is called with, both when the tail buffer
\* is the last 1 MiB of a larger file and when it is the whole file.
C11_AbsoluteOffsets ==
  /\ Returned => AbsoluteFindings(file, entry.embedded)
  /\ pc = "magic" =>
        \A m \in PrimaryMagics : AbsoluteFindings(file, scan_for_embedded(file, m))

C11_Witness ==
  /\ pc = "done"
  /\ file.size > TAIL_SCAN
  /\ HasFinding(entry, "ELF", file.size - 64)

\* C12 (as claimed): the scan reports only the ZIP, DEX, ELF and PE/MZ
\* signatures; a PNG, JPEG, GIF or RIFF signature inside a file is never an
\* embedded finding and never adds to the score.
C12_NoImageFinding ==
  Returned =>
    \A i \in 1..Len(entry.embedded) : entry.embedded[i].name \in EmbeddedNames

EntropyReasons(e) ==
  {i \in 1..Len(e.reasons) :
     e.reasons[i].kind \in {"high entropy", "elevated entropy"}}

\* C13: a computed entropy has exactly one of three outcomes: at or above 7.9
\* the high-entropy reason alone with weight 3, from 7.5 up to but not 7.9
\* the elevated-entropy reason alone with weight 1, below 7.5 no reason and
\* no weight; the two reasons never appear together in one result.
C13_EntropyOutcome ==
  /\ [](entry.entropy # None => Cardinality(EntropyReasons(entry)) <= 1)
  /\ [][pc = "entropy" /\ entry'.entropy # None =>
          LET ent == entry'.entropy[1]
              high == Reason("high entropy", "", ent, "")
              elevated == Reason("elevated entropy", "", ent, "")
          IN  /\ ent >= ENTROPY_UNMISTAKABLE =>
                    /\ entry'.reasons = Append(entry.reasons, high)
                    /\ entry'.score = entry.score + 3
              /\ ent >= ENTROPY_SUSPICIOUS /\ ent < ENTROPY_UNMISTAKABLE =>
                    /\ entry'.reasons = Append(entry.reasons, elevated)
                    /\ entry'.score = entry.score + 1
              /\ ent < ENTROPY_SUSPICIOUS =>
                    /\ entry'.reasons = entry.reasons
                    /\ entry'.score = entry.score]_vars

C13_Witness ==
  /\ pc = "density"
  /\ entry.entropy = Some(ENTROPY_UNMISTAKABLE - 1)
  /\ HasReason(entry, "elevated entropy")
  /\ entry.score \in {1, 3}

\* every byte of a buffer is the same one
OneByteRepeated(data) == \A i \in 1..Len(data) : data[i] = data[1]

\* C14: the entropy of a result is absent or lies in [0, 8] bits;
\* shannon_entropy_bytes returns 0.0 for the empty buffer and for every buffer
\* that holds one byte value repeated.
C14_EntropyRange ==
  /\ entry.entropy = None \/ (0 <= entry.entropy[1] /\ entry.entropy[1] <= 8000)
  /\ shannon_entropy_bytes(<<>>) = 0
  /\ KnownContent(file) =>
        LET ent == shannon_entropy_bytes(file.data[0])
        IN  /\ 0 <= ent /\ ent <= 8000
            /\ OneByteRepeated(file.data[0]) => ent = 0
  /\ (entry.entropy # None /\ KnownContent(file) /\ OneByteRepeated(file.data[0]))
        => entry.entropy = Some(0)

C14_Witness ==
  /\ pc = "done"
  /\ file.size >= 3
  /\ KnownContent(file)
  /\ OneByteRepeated(file.data[0])
  /\ entry.entropy = Some(0)

\* C15: the size alone chooses the entropy input: up to 5 MiB, 5 MiB
\* included, the whole content; above, three chunks of SAMPLE_CHUNK bytes
\* read at offsets 0, size \div 2 and size - SAMPLE_CHUNK, in this order,
\* and no other byte.
C15_EntropyInput ==
  (entry.entropy # None) =>
     IF file.size <= 5 * 1024 * 1024
     THEN ent_input = <<[start |-> 0, len |-> file.size]>>
     ELSE ent_input = <<[start |-> 0, len |-> SAMPLE_CHUNK],
                        [start |-> file.size \div 2, len |-> SAMPLE_CHUNK],
                        [start |-> file.size - SAMPLE_CHUNK, len |-> SAMPLE_CHUNK]>>

C15_Witness ==
  /\ pc = "density"
  /\ file.size = 5 * 1024 * 1024 + 1
  /\ entry.entropy # None
  /\ Len(ent_input) = 3
  /\ ent_input[2].start = 2621440

AllStages == <<"empty", "magic", "entropy", "density", "embedded", "extension">>

\* C16: when the entropy reads or the computation fail, the stage appends
\* "entropy: error computing", leaves the entropy absent and the score as it
\* was, does not raise, and the density, embedded and extension stages
\* still run.
C16_EntropyError ==
  /\ [](HasReason(entry, "entropy: error computing") =>
          /\ entry.entropy = None
          /\ EntropyReasons(entry) = {}
          /\ pc # "raised"
          /\ Returned => stages = AllStages)
  /\ [][pc = "entropy" /\ entry'.entropy = None =>
          /\ entry' = [entry EXCEPT !.reasons =
                         Append(@, Reason("entropy: error computing", "", 0, ""))]
          /\ pc' = "density"]_vars

C16_Witness ==
  /\ pc = "done"
  /\ HasReason(entry, "entropy: error computing")
  /\ entry.entropy = None
  /\ entry.w # None
  /\ entry.embedded # <<>>
  /\ HasReason(entry, "magic does not match extension")

\* C19: when the image does not decode, try_image_dimensions returns no
\* dimensions and does not raise; w, h and bpp stay absent, no bytes-per-pixel
\* reason is added, the stage adds nothing to the score, and the embedded and
\* extension stages still run.
C19_NoImage ==
  /\ []((Returned /\ entry.filesize > 0 /\ entry.w = None) =>
          /\ entry.h = None
          /\ entry.bpp = None
          /\ ~HasReason(entry, "bytes_per_pixel")
          /\ stages = AllStages)
  /\ [][pc = "density" /\ entry'.w = None =>
          /\ entry' = entry
          /\ pc' = "embedded"]_vars

C19_Witness ==
  /\ pc = "done"
  /\ entry.filesize > 0
  /\ entry.w = None /\ entry.h = None /\ entry.bpp = None
  /\ entry.embedded # <<>>
  /\ HasReason(entry, "magic does not match extension")

\* the result of the density stage has one more reason, of bytes per pixel,
\* and 2 more of score
BppTriggered(e, e2) ==
  /\ Len(e2.reasons) = Len(e.reasons) + 1
  /\ SubSeq(e2.reasons, 1, Len(e.reasons)) = e.reasons
  /\ e2.reasons[Len(e2.reasons)].kind = "bytes_per_pixel"
  /\ e2.score = e.score + 2

\* C20: for a decoded image with w > 0 and h > 0, bpp is the file size
\* divided by w * h; the bytes-per-pixel reason is appended and 2 added to the
\* score exactly when that value is above 5.0, so exactly 5.0 does not
\* trigger, and a 100 x 100 image stored in 200 KB does.
C20_BytesPerPixel ==
  /\ [][pc = "density" /\ entry'.w # None =>
          LET w == entry'.w[1]
              h == entry'.h[1]
          IN  /\ w > 0 /\ h > 0
              /\ entry'.bpp = Some(<<entry.filesize, w * h>>)
              /\ IF entry.filesize > 5 * (w * h)
                 THEN BppTriggered(entry, entry')
                 ELSE entry'.reasons = entry.reasons /\ entry'.score = entry.score]_vars
  /\ [](LET e == [NoEntry EXCEPT !.filesize = 200 * 1024]
        IN  BppTriggered(e, DensityStage(e, Some(100), Some(100))))
  /\ [](LET e == [NoEntry EXCEPT !.filesize = 50000]
            e2 == DensityStage(e, Some(100), Some(100))
        IN  e2.bpp = Some(<<50000, 10000>>) /\ e2.reasons = <<>> /\ e2.score = 0)

C20_Witness ==
  /\ pc = "embedded"
  /\ entry.bpp = Some(<<80, 16>>)
  /\ ~HasReason(entry, "bytes_per_pixel")

\* the listed entry a result belongs to
EntryOf(res) == CHOOSE d \in ScanEntries : d.file.path = res.path

\* C17 (as claimed): a file that cannot be analysed because of an I/O
\* failure (it cannot be read, or it is gone when it is analysed) still has a
\* result in the batch, classified dangerous, with a reason that tells the
\* error: analyze_file does not raise for it, and its result is neither
\* normal nor "empty file".
C17_FailureIsDangerousResult ==
  /\ pc # "raised"
  /\ \A i \in 1..Len(main.results) :
        LET res == main.results[i]
        IN  ~EntryOf(res).file.exists =>
              /\ Classification(res.score) = "dangerous"
              /\ res.reasons # <<>>
              /\ ~HasReason(res, "empty file")

\* C18 (as claimed): in a directory walk an exception of analyze_file for
\* one file never ends the batch: main does not stop before every listed path
\* was visited, and it prints the report with its TOTAL line.
C18_BatchSurvives ==
  (main.root = "dir" /\ main.pc \in {"end", "crashed"}) =>
        /\ main.pc = "end"
        /\ main.todo = <<>>
        /\ main.output # <<>>
        /\ main.output[Len(main.output)].kind = "TOTAL"

\* the file a result of the caller is about
CalledFile(res) == CHOOSE f \in CallFiles : f.path = res.path

\* what the two calls got from outside the code is the same: the entropy
\* reads fail in both or in none, bytes the model does not give have one
\* entropy, and the image library reports the same
SameReads(r1, r2) ==
  /\ (r1.entropy = None) = (r2.entropy = None)
  /\ ~KnownContent(CalledFile(r1)) => r1.entropy = r2.entropy
  /\ r1.w = r2.w
  /\ r1.h = r2.h

C22_HandlesReleased ==
  /\ pc \in {"idle", "call", "done", "raised"} => handles = {}
  /\ pc \in {"magic", "entropy", "density", "embedded", "extension"} => handles = {}
  /\ pc = "magic.read" => handles = {Handle(file, "read_initial")}
  /\ pc = "entropy.read" => handles = {Handle(file, "entropy")}
  /\ pc = "density.read" => handles = {Handle(file, "image")}
  /\ pc = "embedded.read" => handles = {Handle(file, "scan_for_embedded")}

\* the second call raised while the scan had its file open
C22_Witness ==
  /\ pc = "raised"
  /\ stages = <<"empty", "magic", "entropy", "density", "embedded">>
  /\ Len(main.results) = 1
  /\ handles = {}

\* the allowlist as claimed
PassesAllowlist(path) ==
  \/ path.suffix \in {".png", ".jpg", ".jpeg", ".gif", ".webp"}
  \/ path.suffix = ".so"
  \/ \E i \in 1..Len(path.dir) : path.dir[i] = "assets"

\* C23 (as claimed): given a directory, main analyses exactly once every
\* regular file below it that passes the allowlist (an image extension, .so,
\* or a path segment assets) and no other file, and total_files is the number
\* of files analysed.
C23_AllowlistedOnce ==
  /\ \A i \in 1..Len(main.results) :
        /\ EntryOf(main.results[i]).is_file
        /\ PassesAllowlist(main.results[i].path)
        /\ \A j \in 1..Len(main.results) :
              main.results[i].path = main.results[j].path => i = j
  /\ (main.root = "dir" /\ main.pc \in {"end", "crashed"}) =>
        /\ \A k \in 1..Len(main.todo) :
              ~(main.todo[k].is_file /\ PassesAllowlist(main.todo[k].file.path))
        /\ main.total_files = Len(main.results)

\* C24 (as claimed): when a user interrupt stops the walk between two files,
\* after k files were analysed, the k results are reported: each flagged one
\* has its FOUND line and the report ends with the TOTAL line.
C24_InterruptKeepsResults ==
  (main.root = "dir" /\ main.pc = "interrupted" /\ pc = "idle" /\ main.ri = 0
     /\ main.results # <<>>) =>
     /\ \A i \in 1..Len(main.results) :
           Flagged(main.results[i]) =>
              \E k \in 1..Len(main.output) :
                 /\ main.output[k].kind = "FOUND"
                 /\ main.output[k].path = main.results[i].path
     /\ main.output # <<>>
     /\ main.output[Len(main.output)].kind = "TOTAL"

IsPrefix(s, t) == Len(s) <= Len(t) /\ SubSeq(t, 1, Len(s)) = s

\* the stage a reason comes from
StageOf(kind) ==
  CASE kind = "empty file" -> 0
    [] kind \in {"high entropy", "elevated entropy", "entropy: error computing"} -> 1
    [] kind = "bytes_per_pixel" -> 2
    [] kind = "found" -> 3
    [] kind = "magic does not match extension" -> 4

\* the reasons of the embedded stage are the findings, in scan order
FindingsInOrder(e) ==
  LET before == Cardinality({i \in 1..Len(e.reasons) : StageOf(e.reasons[i].kind) < 3})
      found == {i \in 1..Len(e.reasons) : e.reasons[i].kind = "found"}
  IN  /\ Cardinality(found) = Len(e.embedded)
      /\ \A i \in 1..Len(e.embedded) :
            e.reasons[before + i] =
               Reason("found", e.embedded[i].name, e.embedded[i].offset, "")

\* C25: for every non-empty file whose analysis returns, the stages run in
\* the order magic, entropy, density, embedded scan, extension check, each
\* whatever the stages before it found; the reasons are only appended to, so
\* they stand in stage order (entropy, bytes per pixel, the findings in scan
\* order, mismatch) and none is removed or moved.
C25_StageOrder ==
  /\ [](IsPrefix(stages, AllStages))
  /\ []((Returned /\ entry.filesize > 0) => stages = AllStages)
  /\ [](\A i, j \in 1..Len(entry.reasons) :
           i < j => StageOf(entry.reasons[i].kind) <= StageOf(entry.reasons[j].kind))
  /\ [](pc \in {"extension", "done", "reported"} => FindingsInOrder(entry))
  /\ [][(pc # "call" /\ pc' # "raised") => IsPrefix(entry.reasons, entry'.reasons)]_vars

C25_Witness ==
  /\ pc = "done"
  /\ Len(entry.reasons) = 4
  /\ entry.reasons[1].kind = "high entropy"
  /\ entry.reasons[2].kind = "bytes_per_pixel"
  /\ entry.reasons[3].kind = "found"
  /\ entry.reasons[4].kind = "magic does not match extension"

RECURSIVE ClaimedEmbeddedWeights(_, _)
ClaimedEmbeddedWeights(embedded, i) ==
  IF i > Len(embedded) THEN 0
  ELSE (IF embedded[i].name \in {"DEX", "ELF", "PE/MZ"} THEN 5
        ELSE IF embedded[i].name = "ZIP/APK/JAR" THEN 3 ELSE 0)
       + ClaimedEmbeddedWeights(embedded, i + 1)

ClaimedScore(e) ==
  ClaimedEmbeddedWeights(e.embedded, 1)
  + (IF HasReason(e, "high entropy") THEN 3 ELSE 0)
  + (IF HasReason(e, "elevated entropy") THEN 1 ELSE 0)
  + (IF HasReason(e, "magic does not match extension") THEN 2 ELSE 0)
  + (IF HasReason(e, "bytes_per_pixel") THEN 2 ELSE 0)

\* C26 (as claimed): the score of every result is the sum of the weights of
\* its findings and nothing else: 5 for each embedded DEX, ELF or PE/MZ, 3 for
\* each embedded ZIP, 3 for high entropy, 1 for elevated entropy, 2 for the
\* extension mismatch, 2 for high bytes per pixel; without findings it is 0.
C26_ScoreIsSumOfWeights ==
  Returned => entry.score = ClaimedScore(entry)

TailStart(f) == Max({0, f.size - TAIL_SCAN})

HasReasons(res) == res.reasons # <<>>

\* the FOUND lines of the results with reasons among the first n results
FoundLines(results, n) ==
  LET with == SelectSeq(SubSeq(results, 1, n), HasReasons)
  IN  [i \in 1..Len(with) |-> Line("FOUND", with[i], 0, 0)]

\* C29: the report lists a result exactly when its reasons are not empty
\* (a positive score always has a reason), so every empty file and every
\* path gone at analysis time is listed, with magic None, and counted as
\* suspicious in the TOTAL line; found_count never exceeds total_files.
C29_ListedIffReasons ==
  /\ main.found_count <= main.total_files
  /\ \A i \in 1..Len(main.results) :
        /\ Flagged(main.results[i]) <=> HasReasons(main.results[i])
        /\ main.results[i].filesize = 0 =>
              /\ HasReasons(main.results[i])
              /\ main.results[i].magic = None
  /\ main.pc = "report" =>
        /\ main.output = FoundLines(main.results, main.ri - 1)
        /\ main.found_count = Len(main.output)
  /\ (main.pc = "end") =>
        LET found == FoundLines(main.results, Len(main.results))
        IN  main.output =
              found \o <<Line("TOTAL", NoEntry, Len(found), main.total_files)>>

C29_Witness ==
  /\ main.pc = "end"
  /\ main.root = "dir"
  /\ Len(main.results) = 2
  /\ main.results[1].reasons = <<>>
  /\ main.results[2].reasons = <<Reason("empty file", "", 0, "")>>
  /\ main.results[2].extension = ".gif"
  /\ Len(main.output) = 2
  /\ main.output[1].path = main.results[2].path
  /\ main.output[1].magic = None
  /\ main.output[2].found = 1
  /\ main.output[2].total = 2

IsDangerous(perm) == In(perm, DANGEROUS_PERMISSIONS)

IsSignature(perm) == In(perm, SIGNATURE_PERMISSIONS) /\ ~In(perm, DANGEROUS_PERMISSIONS)

IsNormal(perm) == ~In(perm, DANGEROUS_PERMISSIONS) /\ ~In(perm, SIGNATURE_PERMISSIONS)

\* C30: the classifier partitions the uses-permission entries: each entry,
\* duplicates included, is in exactly one of the dangerous, signature and
\* normal lists, in manifest order; an entry of both tables is dangerous, an
\* entry of neither is normal; the three counts of the TOTAL line add up to
\* the number of entries.
C30_PermissionPartition ==
  perms.pc # "none" =>
    LET seen == SubSeq(perms.all_permissions, 1, perms.i - 1)
    IN  /\ perms.dangerous_permissions = SelectSeq(seen, IsDangerous)
        /\ perms.signature_permissions = SelectSeq(seen, IsSignature)
        /\ perms.normal_permissions = SelectSeq(seen, IsNormal)
        /\ Len(perms.dangerous_permissions) + Len(perms.signature_permissions)
             + Len(perms.normal_permissions) = Len(seen)
        /\ perms.pc \in {"lists", "end"} =>
              /\ seen = perms.all_permissions
              /\ perms.output[1].kind = "TOTAL"
              /\ perms.output[1].normal + perms.output[1].dangerous
                   + perms.output[1].signature = Len(perms.all_permissions)

C30_Witness ==
  /\ perms.pc = "end"
  /\ Len(perms.all_permissions) = 3
  /\ perms.dangerous_permissions =
        <<"android.permission.CAMERA", "android.permission.CAMERA">>
  /\ perms.signature_permissions = <<>>
  /\ perms.normal_permissions = <<"com.example.permission.PUSH">>
  /\ perms.all_permissions[2] = "com.example.permission.PUSH"

=============================================================================
